---- MODULE Spec2Model ----
(***************************************************************************)
(* Model of the picfit Go image engine, engine/backend/goimage.go.         *)
(*                                                                         *)
(* The engine is a set of operations (Resize, Thumbnail, Fit, Rotate,      *)
(* Flip) from (source bytes, *Options) to ([]byte, error).  The caller's   *)
(* Options value is passed by pointer and is the only state that survives  *)
(* a call, so it is the state of the machine; every action is one whole    *)
(* invocation of an operation on the shared Options.  Rasters are          *)
(* abstracted to their dimensions <<width, height>>, encoded byte slices   *)
(* to where they come from ("source" = img.Source itself, "encoded" = a    *)
(* freshly written buffer, "nil").                                         *)
(***************************************************************************)
EXTENDS Integers, Sequences, FiniteSets, TLC

VARIABLES
    options,          \* the caller's *Options, shared by successive calls
    watermarkAsset,   \* TRUE iff the watermark file can be opened and decoded
    call,             \* the last invocation: inputs, what it did, what it returned
    hexIn,            \* text handed to Hex2RGB
    hexOut            \* what Hex2RGB returned for hexIn

vars == <<options, watermarkAsset, call, hexIn, hexOut>>

----------------------------------------------------------------------------
(* Bounds of the model *)

MaxSrc == 2        \* source images are 1..MaxSrc pixels wide and high
MaxDst == 2        \* requested Width/Height range over 0..MaxDst (and JpegMaxDim)
MaxFrames == 2     \* an animated source holds 1..MaxFrames frames
MaxHexLen == 3     \* every text of up to MaxHexLen characters is parsed

----------------------------------------------------------------------------
(* Small arithmetic helpers *)

Max(a, b) == IF a >= b THEN a ELSE b

\* math.Floor(num/den + 0.5) for num >= 0, den > 0
RoundHalfUp(num, den) == (2 * num + den) \div (2 * den)

\* &image.NRGBA{} : the raster without pixels
Empty == <<0, 0>>

IsEmpty(r) == r[1] <= 0 \/ r[2] <= 0

----------------------------------------------------------------------------
(* Hex2RGB and strconv.ParseUint(s, 16, 32) *)

LowerDigits == <<"0", "1", "2", "3", "4", "5", "6", "7", "8", "9",
                 "a", "b", "c", "d", "e", "f">>
UpperDigits == <<"0", "1", "2", "3", "4", "5", "6", "7", "8", "9",
                 "A", "B", "C", "D", "E", "F">>

\* value of one character in base 16, or -1 when it is no digit
digitVal(c) ==
    IF \E i \in 1..16 : LowerDigits[i] = c
    THEN (CHOOSE i \in 1..16 : LowerDigits[i] = c) - 1
    ELSE IF \E i \in 1..16 : UpperDigits[i] = c
    THEN (CHOOSE i \in 1..16 : UpperDigits[i] = c) - 1
    ELSE -1

\* The accumulator n of ParseUint is kept as hi * 2^16 + lo so that values up
\* to the 32-bit limit stay inside the model checker's integers.
RECURSIVE parseFrom(_, _, _, _)
parseFrom(s, i, hi, lo) ==
    IF i > Len(s) THEN [err |-> "nil", hi |-> hi, lo |-> lo]
    ELSE LET d == digitVal(s[i])
             lo1 == lo * 16 + d
             hi1 == hi * 16 + (lo1 \div 65536)
         IN IF d < 0 THEN [err |-> "syntax", hi |-> 0, lo |-> 0]
            ELSE IF hi1 > 65535 THEN [err |-> "range", hi |-> 65535, lo |-> 65535]
            ELSE parseFrom(s, i + 1, hi1, lo1 % 65536)

ParseUint(s) ==
    IF Len(s) = 0 THEN [err |-> "syntax", hi |-> 0, lo |-> 0]
    ELSE parseFrom(s, 1, 0, 0)

ZeroRGB == [Red |-> 0, Green |-> 0, Blue |-> 0]

Hex2RGBUnmasked(hex) ==
    LET values == ParseUint(hex)
    IN IF values.err # "nil"
       THEN [rgb |-> ZeroRGB, err |-> values.err]
       ELSE [rgb |-> [Red   |-> values.hi,
                      Green |-> (values.lo \div 256) % 256,
                      Blue  |-> values.lo % 256],
             err |-> "nil"]

Hex2RGB(hex) ==
    LET values == ParseUint(hex)
    IN IF values.err # "nil"
       THEN [rgb |-> ZeroRGB, err |-> values.err]
       ELSE [rgb |-> [Red   |-> values.hi % 256,
                      Green |-> (values.lo \div 256) % 256,
                      Blue  |-> values.lo % 256],
             err |-> "nil"]

----------------------------------------------------------------------------
(* Inputs *)

\* Largest dimension the JPEG and GIF writers refuse: width or height >= 1<<16
JpegMaxDim == 65536

JPEG == "jpeg"
PNG  == "png"
GIF  == "gif"
TIFF == "tiff"
BMP  == "bmp"

\* the requested formats tried: the five imaging formats and one unknown
Formats == {JPEG, PNG, GIF, TIFF, BMP, "webp"}

SrcDims == 1..MaxSrc
DstDims == (0..MaxDst) \cup {JpegMaxDim}
Degrees == {45, 90, 180, 270}
Positions == {"h", "v", "diagonal"}

\* Source bytes (imagefile.ImageFile.Source), by what the decoders make of them:
\*   "gif"         an animation, every frame decodable
\*   "gif_badtail" an animation whose first frame decodes and a later one does not
\*   "png"         a still image of another supported format
\*   "corrupt"     bytes no decoder accepts
\* w, h are the size of the image (of the first frame, placed at the origin).
Images ==
    [kind : {"gif"}, w : SrcDims, h : SrcDims, frames : 1..MaxFrames]
    \cup [kind : {"gif_badtail"}, w : SrcDims, h : SrcDims, frames : {MaxFrames}]
    \cup [kind : {"png"}, w : SrcDims, h : SrcDims, frames : {1}]
    \cup [kind : {"corrupt"}, w : {1}, h : {1}, frames : {1}]

\* Options as callers build them.  Resize, Thumbnail and Fit read Width, Height,
\* Upscale, Format and Quality; Rotate and Flip read Degree, Position, Format
\* and Quality.  The fields one family of operations does not read are held
\* at one value while the fields it reads range over all their values; every
\* operation is still invoked on every one of these values.
ResizeOptions ==
    [Width : DstDims, Height : DstDims, Upscale : BOOLEAN, Format : Formats,
     Quality : {75}, Degree : {90}, Position : {"h"}]

OrientOptions ==
    [Width : {0}, Height : {1}, Upscale : {FALSE}, Format : Formats,
     Quality : {75}, Degree : Degrees, Position : Positions]

OptionValues == ResizeOptions \cup OrientOptions

----------------------------------------------------------------------------
(* Decoders *)

\* decode(bytes.NewReader(img.Source)): the package's format-sniffing decoder
decode(img) ==
    IF img.kind = "corrupt"
    THEN [err |-> "DecodeFailed", raster |-> Empty]
    ELSE [err |-> "nil", raster |-> <<img.w, img.h>>]

\* gif.Decode: the first frame of a GIF stream
gifDecode(img) ==
    IF img.kind \in {"gif", "gif_badtail"}
    THEN [err |-> "nil", raster |-> <<img.w, img.h>>]
    ELSE [err |-> "DecodeFailed", raster |-> Empty]

\* gif.DecodeAll: every frame of a GIF stream
gifDecodeAll(img) ==
    IF img.kind = "gif"
    THEN [err |-> "nil", frames |-> [i \in 1..img.frames |-> <<img.w, img.h>>]]
    ELSE [err |-> "DecodeFailed", frames |-> <<>>]

----------------------------------------------------------------------------
(* Resample and orientation primitives of the imaging library (dimensions) *)

imagingResize(src, w, h) ==
    IF w < 0 \/ h < 0 \/ (w = 0 /\ h = 0) \/ IsEmpty(src) THEN Empty
    ELSE LET dw == IF w = 0 THEN Max(1, RoundHalfUp(h * src[1], src[2])) ELSE w
             dh == IF h = 0 THEN Max(1, RoundHalfUp(dw * src[2], src[1])) ELSE h
         IN <<dw, dh>>

\* imaging.Thumbnail = imaging.Fill(..., Center): crop and resize to the box
imagingThumbnail(src, w, h) ==
    IF w <= 0 \/ h <= 0 \/ IsEmpty(src) THEN Empty ELSE <<w, h>>

\* imaging.Fit: scale down to fit the box, aspect ratio kept, never up
imagingFit(src, w, h) ==
    IF w <= 0 \/ h <= 0 \/ IsEmpty(src) THEN Empty
    ELSE IF src[1] <= w /\ src[2] <= h THEN src
    ELSE IF src[1] * h > w * src[2]
         THEN imagingResize(src, w, (w * src[2]) \div src[1])
         ELSE imagingResize(src, (h * src[1]) \div src[2], h)

\* type transformation: the three resample primitives, by name
applyTransformation(trans, src, w, h) ==
    CASE trans = "Resize"    -> imagingResize(src, w, h)
      [] trans = "Thumbnail" -> imagingThumbnail(src, w, h)
      [] trans = "Fit"       -> imagingFit(src, w, h)

\* keys of the map rotateTransformations
rotateTransformations == {90, 270, 180}

\* keys of the map flipTransformations
flipTransformations == {"h", "v"}

rotateImage(deg, src) == IF deg = 180 THEN src ELSE <<src[2], src[1]>>

----------------------------------------------------------------------------
(* Scaling policy *)

\* math.Max(destWidth/srcWidth, destHeight/srcHeight) as the fraction
\* <<numerator, denominator>> of the larger quotient (denominator > 0)
scalingFactor(srcWidth, srcHeight, destWidth, destHeight) ==
    IF destWidth * srcHeight >= destHeight * srcWidth
    THEN <<destWidth, srcWidth>>
    ELSE <<destHeight, srcHeight>>

imageSize(e) == <<e[1], e[2]>>

scalingFactorImage(img, dstWidth, dstHeight) ==
    scalingFactor(imageSize(img)[1], imageSize(img)[2], dstWidth, dstHeight)

FactorBelowOne(factor) == factor[1] < factor[2]
FactorAboveOne(factor) == factor[1] > factor[2]

scaleAppliesAtOne(factor, upscale) == ~FactorAboveOne(factor) \/ upscale

\* the condition of scale(): factor < 1 || options.Upscale
scaleApplies(factor, upscale) == FactorBelowOne(factor) \/ upscale

\* the early exit of transformGIF: factor > 1 && !options.Upscale
gifPassesThrough(factor, upscale) == FactorAboveOne(factor) /\ ~upscale

scale(img, opts, trans) ==
    LET factor == scalingFactorImage(img, opts.Width, opts.Height)
    IN IF scaleApplies(factor, opts.Upscale)
       THEN [raster |-> applyTransformation(trans, img, opts.Width, opts.Height),
             scaled |-> "resampled"]
       ELSE [raster |-> img, scaled |-> "unchanged"]

----------------------------------------------------------------------------
(* Watermark compositor and codec dispatcher *)

\* createWatermark(base).  The error of os.Open and of png.Decode is dropped,
\* so with the asset unavailable `mark` is nil and mark.Bounds() panics.
createWatermark(base, env) ==
    IF ~env.asset
    THEN [panicked |-> TRUE, out |-> Empty]
    ELSE [panicked |-> FALSE, out |-> base]

compositedAlsoPng(format) == format \in {JPEG, PNG}

\* the format whose case calls createWatermark before encoding
composited(format) == format = JPEG

\* the error of the format's encoder for a raster of these dimensions
encoderError(format, img) ==
    CASE format = JPEG ->
            IF img[1] >= JpegMaxDim \/ img[2] >= JpegMaxDim
            THEN "EncodeFailed" ELSE "nil"
      [] format = PNG  -> IF IsEmpty(img) THEN "EncodeFailed" ELSE "nil"
      [] format = GIF  ->
            IF img[1] >= JpegMaxDim \/ img[2] >= JpegMaxDim
            THEN "EncodeFailed" ELSE "nil"
      [] format = TIFF -> "nil"
      [] format = BMP  -> "nil"
      [] OTHER         -> "UnsupportedFormat"

encode(img, format, env) ==
    IF composited(format)
    THEN LET mark == createWatermark(img, env)
         IN IF mark.panicked
            THEN [err |-> "nil", panicked |-> TRUE, wm |-> 1]
            ELSE [err |-> encoderError(format, mark.out), panicked |-> FALSE,
                  wm |-> 1]
    ELSE [err |-> encoderError(format, img), panicked |-> FALSE, wm |-> 0]

\* gif.EncodeAll: a frame must be below 1<<16 in both directions and lie
\* within the logical screen Config.Width x Config.Height (an empty
\* rectangle lies within every rectangle)
gifEncodeAll(frames, config) ==
    IF \E i \in DOMAIN frames :
          \/ frames[i][1] >= JpegMaxDim
          \/ frames[i][2] >= JpegMaxDim
          \/ /\ ~IsEmpty(frames[i])
             /\ (frames[i][1] > config[1] \/ frames[i][2] > config[2])
    THEN "EncodeFailed"
    ELSE "nil"

\* imageToPaletted keeps the bounds of the raster
imageToPaletted(img) == img

----------------------------------------------------------------------------
(* The record of one invocation *)

\* bytes: "nil", "source" (img.Source itself) or "encoded" (a new buffer)
StartCall(opName, img, opts) ==
    [op |-> opName, img |-> img, opts0 |-> opts, opts |-> opts,
     bytes |-> "nil", err |-> "nil", panicked |-> FALSE,
     path |-> "none", passthrough |-> FALSE,
     encodeCalls |-> 0, encodeAllCalls |-> 0, wmCalls |-> 0,
     trans |-> "none", scaled |-> "none",
     raster |-> Empty, frames |-> <<>>, config |-> Empty]

toBytesUnchecked(c, img, format, env) ==
    LET e == encode(img, format, env)
        c1 == [c EXCEPT !.encodeCalls = @ + 1, !.wmCalls = @ + e.wm,
                        !.raster = img]
    IN IF e.panicked THEN [c1 EXCEPT !.panicked = TRUE]
       ELSE [c1 EXCEPT !.bytes = "encoded"]

toBytes(c, img, format, env) ==
    LET e == encode(img, format, env)
        c1 == [c EXCEPT !.encodeCalls = @ + 1, !.wmCalls = @ + e.wm,
                        !.raster = img]
    IN IF e.panicked THEN [c1 EXCEPT !.panicked = TRUE]
       ELSE IF e.err # "nil" THEN [c1 EXCEPT !.err = e.err]
       ELSE [c1 EXCEPT !.bytes = "encoded"]

\* GoImage.source
source(img) == decode(img)

\* GoImage.transform
transform(c, img, opts, trans, env) ==
    LET s == scale(img, opts, trans)
    IN toBytes([c EXCEPT !.trans = trans, !.scaled = s.scaled],
               s.raster, opts.Format, env)

\* the back-fill of a zero Width and of a zero Height in transformGIF
backfillAlways(opts, srcW, srcH) ==
    LET w == Max(1, RoundHalfUp(opts.Height * srcW, srcH))
        h == Max(1, RoundHalfUp(w * srcH, srcW))
    IN [opts EXCEPT !.Width = w, !.Height = h]

backfill(opts, srcW, srcH) ==
    LET w == IF opts.Width = 0
             THEN Max(1, RoundHalfUp(opts.Height * srcW, srcH))
             ELSE opts.Width
        h == IF opts.Height = 0
             THEN Max(1, RoundHalfUp(w * srcH, srcW))
             ELSE opts.Height
    IN [opts EXCEPT !.Width = w, !.Height = h]

transformGIF(c, img, opts, trans, env) ==
    LET g0 == [c EXCEPT !.path = "gif"]
        first == gifDecode(img)
        factor == scalingFactorImage(first.raster, opts.Width, opts.Height)
        g == gifDecodeAll(img)
        \* the accumulator canvas has the size of the first frame
        im == g.frames[1]
        s == scale(im, opts, trans)
        out == [i \in DOMAIN g.frames |-> imageToPaletted(s.raster)]
        size == imageSize(first.raster)
        opts1 == backfill(opts, size[1], size[2])
        config == <<opts1.Width, opts1.Height>>
        err == gifEncodeAll(out, config)
    IN IF first.err # "nil" THEN [g0 EXCEPT !.err = first.err]
       ELSE IF gifPassesThrough(factor, opts.Upscale)
       THEN [g0 EXCEPT !.passthrough = TRUE, !.bytes = "source"]
       ELSE IF g.err # "nil" THEN [g0 EXCEPT !.err = g.err]
       ELSE LET g1 == [g0 EXCEPT !.trans = trans, !.scaled = s.scaled,
                                 !.frames = out, !.opts = opts1,
                                 !.config = config, !.encodeAllCalls = @ + 1]
            IN IF err # "nil" THEN [g1 EXCEPT !.err = err]
               ELSE [g1 EXCEPT !.bytes = "encoded"]

\* GoImage.resize
resize(c, img, opts, trans, env) ==
    IF opts.Format = GIF
    THEN transformGIF(c, img, opts, trans, env)
    ELSE LET image == source(img)
         IN IF image.err # "nil"
            THEN [c EXCEPT !.path = "single", !.err = image.err]
            ELSE transform([c EXCEPT !.path = "single"], image.raster, opts,
                           trans, env)

----------------------------------------------------------------------------
(* The operations of GoImage *)

Resize(img, opts, env) ==
    resize(StartCall("Resize", img, opts), img, opts, "Resize", env)

Thumbnail(img, opts, env) ==
    resize(StartCall("Thumbnail", img, opts), img, opts, "Thumbnail", env)

Fit(img, opts, env) ==
    LET c == StartCall("Fit", img, opts)
    IN IF opts.Format = GIF
       THEN transformGIF(c, img, opts, "Thumbnail", env)
       ELSE LET image == source(img)
            IN IF image.err # "nil"
               THEN [c EXCEPT !.path = "single", !.err = image.err]
               ELSE transform([c EXCEPT !.path = "single"], image.raster,
                              opts, "Fit", env)

RotateValidatesFirst(img, opts, env) ==
    LET c == [StartCall("Rotate", img, opts) EXCEPT !.path = "orient"]
        image == source(img)
        deg == opts.Degree
    IN IF deg \notin rotateTransformations
       THEN [c EXCEPT !.err = "UnsupportedDegree"]
       ELSE IF image.err # "nil" THEN [c EXCEPT !.err = image.err]
       ELSE toBytes([c EXCEPT !.trans = "Rotate"],
                    rotateImage(deg, image.raster), opts.Format, env)

Rotate(img, opts, env) ==
    LET c == [StartCall("Rotate", img, opts) EXCEPT !.path = "orient"]
        image == source(img)
        deg == opts.Degree
    IN IF image.err # "nil" THEN [c EXCEPT !.err = image.err]
       ELSE IF deg \notin rotateTransformations
       THEN [c EXCEPT !.err = "UnsupportedDegree"]
       ELSE toBytes([c EXCEPT !.trans = "Rotate"],
                    rotateImage(deg, image.raster), opts.Format, env)

Flip(img, opts, env) ==
    LET c == [StartCall("Flip", img, opts) EXCEPT !.path = "orient"]
        image == source(img)
        pos == opts.Position
    IN IF image.err # "nil" THEN [c EXCEPT !.err = image.err]
       ELSE IF pos \notin flipTransformations
       THEN [c EXCEPT !.err = "UnsupportedAxis"]
       ELSE toBytes([c EXCEPT !.trans = "Flip"], image.raster, opts.Format,
                    env)

----------------------------------------------------------------------------
(* The state machine: successive calls on one shared Options value *)

NoImage == [kind |-> "corrupt", w |-> 1, h |-> 1, frames |-> 1]

HexPending == [done |-> FALSE, rgb |-> ZeroRGB, err |-> "nil"]

Init ==
    /\ options \in OptionValues
    /\ watermarkAsset \in BOOLEAN
    /\ call = StartCall("none", NoImage, options)
    /\ hexIn = <<>>
    /\ hexOut = HexPending

\* one invocation by an idle caller returns r: the caller's Options are left
\* as r.opts
Invoke(r) ==
    /\ call.op = "none"
    /\ call' = r
    /\ options' = r.opts
    /\ UNCHANGED <<watermarkAsset, hexIn, hexOut>>

\* what a call finds outside its arguments: the watermark file
Env == [asset |-> watermarkAsset]

ResizeCall ==
    \E img \in Images : Invoke(Resize(img, options, Env))

ThumbnailCall ==
    \E img \in Images : Invoke(Thumbnail(img, options, Env))

FitCall ==
    \E img \in Images : Invoke(Fit(img, options, Env))

RotateCall ==
    \E img \in Images : Invoke(Rotate(img, options, Env))

FlipCall ==
    \E img \in Images : Invoke(Flip(img, options, Env))

\* The caller takes the result of a call that returned and is free to call
\* again with the same Options value.  A call that panicked never returns.
Reuse ==
    /\ call.op # "none"
    /\ ~call.panicked
    /\ call' = StartCall("none", NoImage, options)
    /\ UNCHANGED <<options, watermarkAsset, hexIn, hexOut>>

Next ==
    ResizeCall \/ ThumbnailCall \/ FitCall \/ RotateCall \/ FlipCall \/ Reuse

Spec == Init /\ [][Next]_vars

----------------------------------------------------------------------------
(* Claims about the operations.  Each is stated on the record of the last  *)
(* call; the expected values are written out from the call's inputs        *)
(* (call.img, call.opts0) and do not use the definitions of the model.     *)

Called == call.op # "none"

Resizing == call.op \in {"Resize", "Thumbnail", "Fit"}

SrcW == call.img.w
SrcH == call.img.h
DstW == call.opts0.Width
DstH == call.opts0.Height

\* max(DstW/SrcW, DstH/SrcH) compared with 1
FactorLessThanOne == DstW < SrcW /\ DstH < SrcH
FactorAtLeastOne == DstW >= SrcW \/ DstH >= SrcH
FactorExactlyOne ==
    DstW <= SrcW /\ DstH <= SrcH /\ (DstW = SrcW \/ DstH = SrcH)

\* the source decodes as far as the path taken reads it
Decodable ==
    IF call.opts0.Format = "gif"
    THEN call.img.kind \in {"gif", "gif_badtail"}
    ELSE call.img.kind # "corrupt"

\* C1: Resize, Thumbnail and Fit on a decodable source, on the single-frame
\* and on the animation path, return the source bytes themselves, without
\* encoding anything, whenever the scale factor is >= 1 and upscale is off.
C1_PassThroughVerbatim ==
    Resizing /\ Decodable /\ FactorAtLeastOne /\ ~call.opts0.Upscale =>
        /\ call.bytes = "source"
        /\ call.err = "nil"
        /\ call.encodeCalls = 0
        /\ call.encodeAllCalls = 0

\* C2: scale() resamples iff factor < 1 or upscale is allowed; otherwise it
\* returns its input raster, of the same dimensions; with upscale allowed it
\* always resamples.  The same holds for every frame of the animation
\* pipeline.  A 2x1 source asked for 1x1 (the 100x50 -> 50x50 case) has
\* factor exactly 1 and is not resampled.
C2_ScalePolicy ==
    call.scaled # "none" =>
        /\ call.scaled = "resampled" <=> (FactorLessThanOne \/ call.opts0.Upscale)
        /\ call.scaled = "unchanged" <=> (FactorAtLeastOne /\ ~call.opts0.Upscale)
        /\ call.scaled = "unchanged" /\ call.path = "single" =>
               call.raster = <<SrcW, SrcH>>
        /\ call.scaled = "unchanged" /\ call.path = "gif" =>
               /\ Len(call.frames) = call.img.frames
               /\ \A i \in DOMAIN call.frames : call.frames[i] = <<SrcW, SrcH>>
        /\ (SrcW = 2 /\ SrcH = 1 /\ DstW = 1 /\ DstH = 1 /\ ~call.opts0.Upscale) =>
               call.scaled = "unchanged"

\* the animation pipeline reaches scale() with factor exactly 1, upscale off
C2_Witness ==
    /\ call.path = "gif"
    /\ call.scaled = "unchanged"
    /\ SrcW = 2 /\ SrcH = 1 /\ DstW = 1 /\ DstH = 1
    /\ ~call.opts0.Upscale
    /\ Len(call.frames) = 2

InvalidRotate == call.op = "Rotate" /\ call.opts0.Degree \notin {90, 180, 270}
InvalidFlip == call.op = "Flip" /\ call.opts0.Position \notin {"h", "v"}

\* C3, original statement: an unsupported degree or axis fails with the
\* unsupported-degree / unsupported-axis error whatever the source bytes are.
C3_Original ==
    /\ InvalidRotate =>
           call.err = "UnsupportedDegree" /\ call.bytes = "nil"
           /\ call.encodeCalls = 0
    /\ InvalidFlip =>
           call.err = "UnsupportedAxis" /\ call.bytes = "nil"
           /\ call.encodeCalls = 0

\* C3 as amended: an unsupported degree or axis fails with the
\* unsupported-degree / unsupported-axis error when the source bytes decode,
\* and with the decode error when they do not; in every case no bytes are
\* returned and encode is never reached, whatever format was requested.
C3_InvalidOrientation ==
    /\ InvalidRotate =>
           /\ call.err = IF call.img.kind = "corrupt" THEN "DecodeFailed"
                         ELSE "UnsupportedDegree"
           /\ call.bytes = "nil" /\ ~call.panicked
           /\ call.encodeCalls = 0 /\ call.wmCalls = 0
    /\ InvalidFlip =>
           /\ call.err = IF call.img.kind = "corrupt" THEN "DecodeFailed"
                         ELSE "UnsupportedAxis"
           /\ call.bytes = "nil" /\ ~call.panicked
           /\ call.encodeCalls = 0 /\ call.wmCalls = 0

\* Rotate by 45 degrees of undecodable bytes: the decode error comes first
C3_Witness ==
    /\ call.op = "Rotate"
    /\ call.opts0.Degree = 45
    /\ call.img.kind = "corrupt"
    /\ call.err = "DecodeFailed"

ValidParameters ==
    /\ call.op = "Rotate" => call.opts0.Degree \in {90, 180, 270}
    /\ call.op = "Flip" => call.opts0.Position \in {"h", "v"}

\* C4: every operation, given valid parameters and decodable bytes, fails
\* with the unsupported-format error and returns no bytes when the requested
\* format is none of JPEG, PNG, GIF, TIFF, BMP.
C4_UnsupportedFormat ==
    (/\ Called
     /\ call.opts0.Format \notin {"jpeg", "png", "gif", "tiff", "bmp"}
     /\ call.img.kind # "corrupt"
     /\ ValidParameters) =>
        /\ call.err = "UnsupportedFormat"
        /\ call.bytes = "nil"
        /\ ~call.panicked

C4_Witness ==
    /\ call.op = "Fit"
    /\ call.opts0.Format = "webp"
    /\ call.img.kind = "gif"
    /\ call.err = "UnsupportedFormat"
    /\ call.encodeCalls = 1

\* C5: every invocation ends with (bytes, no error) or with (no bytes, an
\* error), never otherwise and never by an abort; an encode to JPEG with the
\* watermark asset unavailable returns an asset-unavailable error, no bytes.
C5_TwoOutcomes ==
    Called =>
        /\ ~call.panicked
        /\ \/ call.bytes # "nil" /\ call.err = "nil"
           \/ call.bytes = "nil" /\ call.err # "nil"
        /\ (call.encodeCalls = 1 /\ call.opts0.Format = "jpeg" /\ ~watermarkAsset) =>
               call.err = "AssetUnavailable" /\ call.bytes = "nil"

Failing == call.err # "nil" \/ call.panicked

\* C6, original statement, in the runs where the watermark asset is available
\* (so that no abort of the compositor is involved): createWatermark is
\* called exactly once by every successful JPEG encode and never by any
\* other request, failing requests included.
C6_Original ==
    Called /\ watermarkAsset =>
        /\ (call.bytes = "encoded" /\ call.opts0.Format = "jpeg") => call.wmCalls = 1
        /\ call.bytes = "encoded" /\ call.opts0.Format # "jpeg" => call.wmCalls = 0
        /\ call.path = "gif" => call.wmCalls = 0
        /\ call.passthrough => call.wmCalls = 0
        /\ Failing => call.wmCalls = 0

\* C6 as amended: createWatermark is called exactly once by every call that
\* reaches encode with the JPEG format, whether that call then succeeds or
\* fails (the JPEG encoder rejects the raster, or the compositor aborts), and
\* never otherwise: output produced as PNG, GIF, TIFF or BMP, the animation
\* pipeline, pass-through output and requests that fail before encode never
\* go through it, and every successful JPEG encode goes through it once.
C6_WatermarkOnJpegEncode ==
    Called =>
        /\ call.wmCalls =
               IF call.encodeCalls = 1 /\ call.opts0.Format = "jpeg" THEN 1 ELSE 0
        /\ (call.bytes = "encoded" /\ call.opts0.Format = "jpeg") =>
               call.wmCalls = 1 /\ call.encodeCalls = 1
        /\ call.bytes = "encoded" /\ call.opts0.Format # "jpeg" => call.wmCalls = 0
        /\ call.path = "gif" => call.wmCalls = 0
        /\ call.passthrough => call.wmCalls = 0
        /\ Failing /\ call.encodeCalls = 0 => call.wmCalls = 0

\* a JPEG request that fails after the compositor ran, the asset being there
C6_Witness ==
    /\ Resizing
    /\ watermarkAsset
    /\ call.opts0.Format = "jpeg"
    /\ call.err = "EncodeFailed"
    /\ call.bytes = "nil"
    /\ call.wmCalls = 1

\* C7: the transform Fit applies is the fit-within primitive for every input
\* it handles, single-frame or animated, never the cover-fit primitive.
C7_FitUsesFitWithin ==
    call.op = "Fit" /\ call.trans # "none" => call.trans = "Fit"

\* C8: whenever the animation pipeline goes on to re-serialize, every output
\* frame has the width and height recorded on the container.
C8_FrameDimensions ==
    call.path = "gif" /\ call.encodeAllCalls = 1 =>
        \A i \in DOMAIN call.frames : call.frames[i] = call.config

\* C9: the only change any operation makes to the caller's options is the
\* animation pipeline, past its pass-through exit and its decodes, replacing
\* a zero Width and/or a zero Height; every other field and every non-zero
\* Width or Height is left as it was by every operation.
C9_OptionsReadOnly ==
    [][/\ options'.Upscale = options.Upscale
       /\ options'.Format = options.Format
       /\ options'.Quality = options.Quality
       /\ options'.Degree = options.Degree
       /\ options'.Position = options.Position
       /\ options.Width # 0 => options'.Width = options.Width
       /\ options.Height # 0 => options'.Height = options.Height
       /\ options' # options =>
              /\ call'.op \in {"Resize", "Thumbnail", "Fit"}
              /\ call'.path = "gif"
              /\ ~call'.passthrough
              /\ call'.img.kind = "gif"
              /\ call'.encodeAllCalls = 1
       /\ (call'.op \in {"Rotate", "Flip"} \/ call'.path = "single"
           \/ call'.passthrough \/ call'.err = "DecodeFailed") =>
              options' = options]_vars

\* the animation pipeline has filled in a zero Width next to a set Height
C9_Witness ==
    /\ call.path = "gif"
    /\ call.opts0.Width = 0
    /\ call.opts0.Height = 2
    /\ options.Width # 0
    /\ options.Height = 2


----------------------------------------------------------------------------
(* Hex2RGB on its own: one text is parsed *)

HexAlphabet == {"0", "1", "a", "F", "g"}

\* every text of up to MaxHexLen characters of the alphabet, and longer texts
\* around the 24-bit and the 32-bit limits
HexTexts ==
    UNION {[1..k -> HexAlphabet] : k \in 0..MaxHexLen}
    \cup {<<"1", "a", "2", "b", "3", "c">>,
          <<"1", "A", "2", "B", "3", "C">>,
          <<"#", "1", "a", "2", "b", "3", "c">>,
          <<"f", "f", "f", "f", "f", "f">>,
          <<"1", "0", "0", "0", "0", "0", "0">>,
          <<"a", "b", "1", "2", "3", "4", "5", "6">>,
          <<"f", "f", "f", "f", "f", "f", "f", "f">>,
          <<"1", "0", "0", "0", "0", "0", "0", "0", "0">>,
          <<"0", "0", "0", "0", "0", "0", "0", "0", "1", "2">>}

InitHex ==
    /\ options = [Width |-> 0, Height |-> 0, Upscale |-> FALSE, Format |-> JPEG,
                  Quality |-> 75, Degree |-> 90, Position |-> "h"]
    /\ watermarkAsset = TRUE
    /\ call = StartCall("none", NoImage, options)
    /\ hexIn \in HexTexts
    /\ hexOut = HexPending

Hex2RGBCall ==
    /\ ~hexOut.done
    /\ hexOut' = [done |-> TRUE, rgb |-> Hex2RGB(hexIn).rgb,
                  err |-> Hex2RGB(hexIn).err]
    /\ UNCHANGED <<options, watermarkAsset, call, hexIn>>

NextHex == Hex2RGBCall

SpecHex == InitHex /\ [][NextHex]_vars

----------------------------------------------------------------------------
(* Claims about Hex2RGB *)

\* the k-th base-16 digit of the text counted from the right (k = 0 is the
\* last character), 0 beyond the text
Nibble(s, k) == IF k < Len(s) THEN digitVal(s[Len(s) - k]) ELSE 0

IsBase16(s) == Len(s) > 0 /\ \A i \in 1..Len(s) : digitVal(s[i]) >= 0

\* the value of a base-16 text is below 2^24 iff every digit from the seventh
\* on (from the right) is 0
Below24Bits(s) == \A k \in 6..Len(s) : Nibble(s, k) = 0

\* C10, original statement: Red = bits 16-23, Green = bits 8-15, Blue = bits 0-7
\* of the value of a valid base-16 text, and failure with the zero colour for
\* every text that is not valid base-16 or whose value is 2^24 or more.
C10_Original ==
    hexOut.done =>
        IF IsBase16(hexIn) /\ Below24Bits(hexIn)
        THEN /\ hexOut.err = "nil"
             /\ hexOut.rgb = [Red   |-> 16 * Nibble(hexIn, 5) + Nibble(hexIn, 4),
                              Green |-> 16 * Nibble(hexIn, 3) + Nibble(hexIn, 2),
                              Blue  |-> 16 * Nibble(hexIn, 1) + Nibble(hexIn, 0)]
        ELSE /\ hexOut.err # "nil"
             /\ hexOut.rgb = ZeroRGB

\* C10 as amended: Hex2RGB returns Red = bits 16-23, Green = bits 8-15,
\* Blue = bits 0-7 of the value of every base-16 text whose value is below
\* 2^32 (bits 24-31 are dropped), and fails with the zero colour for every
\* text that is not valid base-16 or whose value is 2^32 or more.
C10_HexWithin32Bits ==
    hexOut.done =>
        IF IsBase16(hexIn) /\ \A k \in 8..Len(hexIn) : Nibble(hexIn, k) = 0
        THEN /\ hexOut.err = "nil"
             /\ hexOut.rgb = [Red   |-> 16 * Nibble(hexIn, 5) + Nibble(hexIn, 4),
                              Green |-> 16 * Nibble(hexIn, 3) + Nibble(hexIn, 2),
                              Blue  |-> 16 * Nibble(hexIn, 1) + Nibble(hexIn, 0)]
        ELSE /\ hexOut.err # "nil"
             /\ hexOut.rgb = ZeroRGB

\* a text of eight digits is parsed and the top eight bits are dropped
C10_Witness ==
    /\ hexOut.done
    /\ hexIn = <<"a", "b", "1", "2", "3", "4", "5", "6">>
    /\ hexOut.err = "nil"
    /\ hexOut.rgb = [Red |-> 18, Green |-> 52, Blue |-> 86]

====
